---- MODULE Spec2Model ----
(***************************************************************************)
(* Model of the CV retrieval-augmented chat: the chunker of ingest.py, the *)
(* ingestion / listing / deletion handlers of ingest.py and app.py, and    *)
(* the retrieve / build_context / ask_gemini / rag pipeline of chat.py.    *)
(*                                                                         *)
(* Texts are sequences of one-character strings, so that slicing, rfind    *)
(* and strip are computed as Python computes them.                         *)
(***************************************************************************)
EXTENDS Integers, Sequences, FiniteSets, TLC

VARIABLES
    text,        \* chunk_text: the argument
    start,       \* chunk_text: local `start`
    chunks,      \* chunk_text: local `chunks`
    spans,       \* for each appended chunk, the slice window it was cut from
    pc,          \* chunk_text: "idle" | "loop" | "done" | "MemoryError"
    store,       \* the hr_cvs collection: the payloads of its points
    messages,    \* st.session_state.messages
    last_chunks, \* st.session_state.last_chunks
    op,          \* the handler that ran last
    hung,        \* whether that handler never returned
    total_added, \* ingestion: total_added as reported
    skipped,     \* ingestion: the names reported as already indexed
    listing,     \* list_candidates / get_candidates: counts
    calls,       \* rag: the external calls it made, in order
    search_hits, \* rag: the response of qdrant.search
    context,     \* build_context: its return value
    prompt,      \* ask_gemini: the prompt handed to generate_content
    cli_pc,      \* interactive_chat: "off" | "prompt" | "exited" | "crashed"
    cli_history, \* interactive_chat: local `history`
    embedder,    \* clients.py: the module global `_embedder`
    constructed, \* how many times SentenceTransformer(...) was constructed
    threads,     \* each request thread's position in embed_texts
    runs         \* each ingestion run's position in its loop

chunkVars == <<text, start, chunks, spans, pc>>
sysVars == <<store, messages, last_chunks, op, hung, total_added, skipped,
             listing,
             calls, search_hits, context, prompt>>
cliVars == <<cli_pc, cli_history>>
embVars == <<embedder, constructed, threads>>
extVars == <<cliVars, embVars, runs>>
vars == <<chunkVars, sysVars, extVars>>

\* ------------------------------------------------------------------------
\* Bounds
\* ------------------------------------------------------------------------
MaxLen == 9        \* longest text handed to chunk_text
MaxChunks == 12    \* list capacity before Python raises MemoryError
MaxFiles == 2      \* files in one directory listing or one upload
MaxTurns == 4      \* turns kept in a session before the chat is cleared

\* ------------------------------------------------------------------------
\* clients.py configuration.  CHUNK_SIZE / CHUNK_OVERLAP are 500 / 100 in
\* the source; the model keeps the relations size > 2 * overlap + 1 and
\* overlap >= 3 that decide every branch of chunk_text, scaled down so that
\* texts longer than one window can be enumerated.
\* ------------------------------------------------------------------------
CHUNK_SIZE == 8
CHUNK_OVERLAP == 3

NL == "\n"
Alphabet == {"a", " ", NL}
Whitespace == {" ", NL}

Texts(n) == UNION {[1..k -> Alphabet] : k \in 0..n}

\* ------------------------------------------------------------------------
\* Python built-ins used by the code
\* ------------------------------------------------------------------------
Min(a, b) == IF a < b THEN a ELSE b
Max(a, b) == IF a > b THEN a ELSE b

\* slice index normalisation: negative indices count from the end, then clamp
PyIdx(i, n) == IF i < 0 THEN Max(i + n, 0) ELSE Min(i, n)

\* s[lo:hi]
PySlice(s, lo, hi) ==
    LET a == PyIdx(lo, Len(s))
        b == PyIdx(hi, Len(s))
    IN  IF a >= b THEN <<>> ELSE SubSeq(s, a + 1, b)

\* s.rfind(ch, lo, hi) for a one-character ch: highest 0-based index in the
\* slice window holding ch, or -1
PyRfind(s, ch, lo, hi) ==
    LET a == PyIdx(lo, Len(s))
        b == PyIdx(hi, Len(s))
        found == {i \in a..(b - 1) : s[i + 1] = ch}
    IN  IF found = {} THEN -1 ELSE CHOOSE i \in found : \A j \in found : j <= i

RECURSIVE LStrip(_)
LStrip(s) == IF s # <<>> /\ Head(s) \in Whitespace THEN LStrip(Tail(s)) ELSE s

RECURSIVE RStrip(_)
RStrip(s) ==
    IF s # <<>> /\ s[Len(s)] \in Whitespace THEN RStrip(SubSeq(s, 1, Len(s) - 1)) ELSE s

\* s.rstrip()
StripMutant(s) == RStrip(s)

\* s.strip()
Strip(s) == LStrip(RStrip(s))

\* ------------------------------------------------------------------------
\* ingest.py: chunk_text
\* ------------------------------------------------------------------------

\* one pass through the body of the while loop, entered with `start`
ChunkIter(t, st) ==
    LET tentative == st + CHUNK_SIZE
        bp == PyRfind(t, NL, st, tentative)
        end == IF tentative < Len(t) /\ bp > st THEN bp ELSE tentative
    IN  [end   |-> end,
         chunk |-> Strip(PySlice(t, st, end)),
         span  |-> <<PyIdx(st, Len(t)), PyIdx(end, Len(t))>>,
         next  |-> end - CHUNK_OVERLAP]

\* chunk_text run to completion, as its callers use it.  The loop is a
\* function of `start` alone, so coming back to a value of `start` already
\* used means the call never returns.
RECURSIVE ChunkLoop(_, _, _, _)
ChunkLoop(t, st, acc, seen) ==
    IF st >= Len(t) THEN [diverges |-> FALSE, chunks |-> acc]
    ELSE IF st \in seen THEN [diverges |-> TRUE, chunks |-> <<>>]
    ELSE LET it == ChunkIter(t, st)
         IN  ChunkLoop(t, it.next,
                       IF it.chunk # <<>> THEN Append(acc, it.chunk) ELSE acc,
                       seen \cup {st})

ChunkText(t) == ChunkLoop(t, 0, <<>>, {})

SysIdle ==
    /\ op = "none"
    /\ store = <<>>
    /\ messages = <<>>
    /\ last_chunks = <<>>
    /\ hung = FALSE
    /\ total_added = 0
    /\ skipped = {}
    /\ listing = <<>>
    /\ calls = <<>>
    /\ search_hits = <<>>
    /\ context = <<>>
    /\ prompt = <<>>

\* the request threads of one process and the ingestion runs that can be
\* under way at once (the CLI's and one app session's)
Threads == {"t1", "t2"}
Runners == {"cli", "app"}

\* None, as the value of `_embedder`
None == 0

IdleThread == [pc |-> "idle", handle |-> None, calls |-> 0]
IdleRun == [pc |-> "idle", indexed |-> {}, files |-> <<>>]

\* no terminal chat started, no model loaded, no ingestion under way
ExtIdle ==
    /\ cli_pc = "off"
    /\ cli_history = <<>>
    /\ embedder = None
    /\ constructed = 0
    /\ threads = [t \in Threads |-> IdleThread]
    /\ runs = [r \in Runners |-> IdleRun]

ChunkIdle ==
    /\ text = <<>>
    /\ start = 0
    /\ chunks = <<>>
    /\ spans = <<>>
    /\ pc = "idle"

ChunkInit == ChunkIdle /\ SysIdle /\ ExtIdle

\* chunk_text(t) is called with a text of T: chunks, start = [], 0
ChunkCallOn(T) ==
    /\ pc = "idle"
    /\ \E t \in T : text' = t
    /\ start' = 0
    /\ chunks' = <<>>
    /\ spans' = <<>>
    /\ pc' = "loop"
    /\ UNCHANGED <<sysVars, extVars>>

ChunkCall == ChunkCallOn(Texts(MaxLen))

\* an iteration that appends (or skips an empty chunk) and moves `start`
ChunkStep ==
    /\ pc = "loop"
    /\ start < Len(text)
    /\ LET it == ChunkIter(text, start)
       IN  /\ it.chunk # <<>> => Len(chunks) < MaxChunks
           /\ chunks' = IF it.chunk # <<>> THEN Append(chunks, it.chunk) ELSE chunks
           /\ spans' = IF it.chunk # <<>> THEN Append(spans, it.span) ELSE spans
           /\ start' = it.next
    /\ UNCHANGED <<text, pc, sysVars, extVars>>

\* chunks.append on a list that cannot grow any further
ChunkMemoryError ==
    /\ pc = "loop"
    /\ start < Len(text)
    /\ ChunkIter(text, start).chunk # <<>>
    /\ Len(chunks) >= MaxChunks
    /\ pc' = "MemoryError"
    /\ UNCHANGED <<text, start, chunks, spans, sysVars, extVars>>

\* the loop condition fails: return chunks
ChunkReturn ==
    /\ pc = "loop"
    /\ start >= Len(text)
    /\ pc' = "done"
    /\ UNCHANGED <<text, start, chunks, spans, sysVars, extVars>>

ChunkNext == ChunkCall \/ ChunkStep \/ ChunkMemoryError \/ ChunkReturn

ChunkSpec == ChunkInit /\ [][ChunkNext]_vars

\* a running Python loop takes its next iteration: the body of chunk_text is
\* scheduled fairly once the function has been called
ChunkRun == ChunkStep \/ ChunkMemoryError \/ ChunkReturn

\* texts of letters with at most one line break
OneBreakTexts ==
    {t \in Texts(MaxLen) :
        /\ \A i \in 1..Len(t) : t[i] # " "
        /\ Cardinality({i \in 1..Len(t) : t[i] = NL}) <= 1}

ChunkCallOneBreak == ChunkCallOn(OneBreakTexts)

FairChunkNext == ChunkCallOneBreak \/ ChunkRun

FairChunkSpec == ChunkInit /\ [][FairChunkNext]_vars /\ WF_vars(ChunkRun)

\* ------------------------------------------------------------------------
\* Files offered to ingestion.  RawText is what the format parser reads from
\* the file; file names, stems and extensions are as os.path.splitext gives.
\* ------------------------------------------------------------------------
Files == {"ann.txt", "bob.pdf", "eve.docx", "dan.txt", "notes.md"}

Stem(f) ==
    CASE f = "ann.txt" -> "ann"
      [] f = "bob.pdf" -> "bob"
      [] f = "eve.docx" -> "eve"
      [] f = "dan.txt" -> "dan"
      [] OTHER -> "notes"

Ext(f) ==
    CASE f = "ann.txt" -> ".txt"
      [] f = "bob.pdf" -> ".pdf"
      [] f = "eve.docx" -> ".docx"
      [] f = "dan.txt" -> ".txt"
      [] OTHER -> ".md"

RawText(f) ==
    CASE f = "ann.txt" -> <<"a", "n", "n", " ", "s", "q", "l", " ", "p", "y">>
      [] f = "bob.pdf" -> <<" ", "b", "o", "b", NL>>
      [] f = "eve.docx" -> <<NL, " ">>
      [] f = "dan.txt" -> <<"d", "a", "n", NL, "r", "u", "s", "t", "l", "a", "n", "g">>
      [] OTHER -> <<"m", "d">>

SupportedExt == {".pdf", ".docx", ".txt"}

\* extract_text: the parser's text stripped, or "" for an unsupported format
ExtractText(f) == IF Ext(f) \notin SupportedExt THEN <<>> ELSE Strip(RawText(f))

\* sequences of distinct file names, at most n long
Distinct(n) ==
    {l \in UNION {[1..k -> Files] : k \in 0..n} :
        \A i, j \in 1..Len(l) : i # j => l[i] # l[j]}

\* os.listdir(DATA_DIR): the names in any order
Listings == Distinct(MaxFiles)

\* st.file_uploader(type=[pdf, docx, txt], accept_multiple_files=True): a
\* non-empty selection of files of the accepted types, of distinct names
Uploads ==
    {l \in Distinct(MaxFiles) :
        l # <<>> /\ \A i \in 1..Len(l) : Ext(l[i]) \in SupportedExt}

Names == {Stem(f) : f \in Files} \cup {"zed"}

\* ------------------------------------------------------------------------
\* Qdrant, as the code uses it.  A point is its payload: ids are fresh
\* uuid4 strings that nothing reads, so an upsert always adds points.
\* ------------------------------------------------------------------------
SCROLL_LIMIT == 10000

\* qdrant.scroll(limit=10_000): the first page
Scroll(qdrant) == SubSeq(qdrant, 1, Min(Len(qdrant), SCROLL_LIMIT))

\* qdrant.upsert(points)
Upsert(qdrant, points) == qdrant \o points

\* qdrant.delete(Filter(must=[FieldCondition(key, MatchValue(value))]))
DeleteWhereFilename(qdrant, value) == SelectSeq(qdrant, LAMBDA p : p.filename # value)
DeleteWhereCandidate(qdrant, value) == SelectSeq(qdrant, LAMBDA p : p.candidate # value)

\* cosine similarities, in units of 1e-4: the ones a question of the chat
\* can have, and a finer set around the threshold and the rounding ties
Scores == {2994, 3015}
FineScores == {2994, 2996, 3000, 3004, 3005, 3015, 3016}

ChunkTexts(qdrant) == {qdrant[i].text : i \in 1..Len(qdrant)}

\* the similarity of the query vector to each stored text
Sims(qdrant) == [ChunkTexts(qdrant) -> Scores]
FineSims(qdrant) == [ChunkTexts(qdrant) -> FineScores]

InsertDesc(sorted, x) ==
    LET k == Cardinality({i \in 1..Len(sorted) : sorted[i].score >= x.score})
    IN  SubSeq(sorted, 1, k) \o <<x>> \o SubSeq(sorted, k + 1, Len(sorted))

RECURSIVE SortDesc(_)
SortDesc(s) ==
    IF s = <<>> THEN <<>>
    ELSE InsertDesc(SortDesc(SubSeq(s, 1, Len(s) - 1)), s[Len(s)])

\* qdrant.search(query_vector, limit, score_threshold): the `limit` nearest
\* points whose similarity is not below the threshold, best first, equal
\* scores in the collection's order
Search(qdrant, sim, limit, score_threshold) ==
    LET scored == [i \in 1..Len(qdrant) |->
                      [payload |-> qdrant[i], score |-> sim[qdrant[i].text]]]
        kept == SelectSeq(scored, LAMBDA h : h.score >= score_threshold)
        ranked == SortDesc(kept)
    IN  SubSeq(ranked, 1, Min(Len(ranked), limit))

\* qdrant.search without score_threshold
SearchAll(qdrant, sim, limit) ==
    LET scored == [i \in 1..Len(qdrant) |->
                      [payload |-> qdrant[i], score |-> sim[qdrant[i].text]]]
        ranked == SortDesc(scored)
    IN  SubSeq(ranked, 1, Min(Len(ranked), limit))

\* ------------------------------------------------------------------------
\* ingest.py / app.py: ingestion, listing, deletion
\* ------------------------------------------------------------------------

\* get_indexed_filenames
GetIndexedFilenames(qdrant) ==
    LET results == Scroll(qdrant) IN {results[i].filename : i \in 1..Len(results)}

\* chunk_text on the extracted text of each file
FileChunks == [f \in Files |-> ChunkText(ExtractText(f))]

\* the PointStruct payloads built for one file
Points(filename, cs) ==
    [i \in 1..Len(cs) |->
        [text         |-> cs[i],
         candidate    |-> Stem(filename),
         filename     |-> filename,
         chunk_index  |-> i - 1,
         total_chunks |-> Len(cs)]]

\* the body of the `for filename in files` loop, without the skip of
\* already indexed names
IngestFileNoSkip(qdrant, indexed, filename) ==
    LET t == ExtractText(filename)
        r == FileChunks[filename]
    IN  IF t = <<>> THEN [store |-> qdrant, added |-> 0, skip |-> FALSE, hung |-> FALSE]
        ELSE IF r.diverges
        THEN [store |-> qdrant, added |-> 0, skip |-> FALSE, hung |-> TRUE]
        ELSE [store |-> Upsert(qdrant, Points(filename, r.chunks)),
              added |-> Len(r.chunks),
              skip  |-> FALSE,
              hung  |-> FALSE]

\* the body of the `for filename in files` loop of ingest_cvs, and of the
\* `for i, f in enumerate(uploaded)` loop of the Index handler; a call of
\* chunk_text that never returns leaves the handler hanging
IngestFile(qdrant, indexed, filename) ==
    LET t == ExtractText(filename)
        r == FileChunks[filename]
    IN  IF filename \in indexed
        THEN [store |-> qdrant, added |-> 0, skip |-> TRUE, hung |-> FALSE]
        ELSE IF t = <<>>
        THEN [store |-> qdrant, added |-> 0, skip |-> FALSE, hung |-> FALSE]
        ELSE IF r.diverges
        THEN [store |-> qdrant, added |-> 0, skip |-> FALSE, hung |-> TRUE]
        ELSE [store |-> Upsert(qdrant, Points(filename, r.chunks)),
              added |-> Len(r.chunks),
              skip  |-> FALSE,
              hung  |-> FALSE]

\* the whole loop; `indexed` is read once, before the loop
RECURSIVE IngestLoop(_, _, _, _, _)
IngestLoop(qdrant, indexed, files, added, skips) ==
    IF files = <<>>
    THEN [store |-> qdrant, added |-> added, skipped |-> skips, hung |-> FALSE]
    ELSE LET r == IngestFile(qdrant, indexed, Head(files))
             s == IF r.skip THEN skips \cup {Head(files)} ELSE skips
         IN  IF r.hung
             THEN [store |-> r.store, added |-> added, skipped |-> s, hung |-> TRUE]
             ELSE IngestLoop(r.store, indexed, Tail(files), added + r.added, s)

\* ingest_cvs over a directory listing
IngestRun(qdrant, listdir) ==
    LET indexed == GetIndexedFilenames(qdrant)
        files == SelectSeq(listdir, LAMBDA f : Ext(f) \in SupportedExt)
    IN  IngestLoop(qdrant, indexed, files, 0, {})

\* the counts of list_candidates and get_candidates
Counts(qdrant) ==
    LET results == Scroll(qdrant)
        names == {results[i].candidate : i \in 1..Len(results)}
    IN  [n \in names |-> Cardinality({i \in 1..Len(results) : results[i].candidate = n})]

NoRag ==
    /\ calls' = <<>>
    /\ search_hits' = <<>>
    /\ context' = <<>>
    /\ prompt' = <<>>

\* python ingest.py
IngestCvs(listdir) ==
    LET r == IngestRun(store, listdir)
    IN  /\ store' = r.store
        /\ total_added' = r.added
        /\ skipped' = r.skipped
        /\ op' = "ingest"
        /\ hung' = r.hung
        /\ listing' = <<>>
        /\ NoRag
        /\ UNCHANGED <<messages, last_chunks, chunkVars, extVars>>

\* app.py: the Index CVs button with `uploaded` in the uploader
IndexCvs(uploaded) ==
    LET r == IngestLoop(store, GetIndexedFilenames(store), uploaded, 0, {})
    IN  /\ store' = r.store
        /\ total_added' = r.added
        /\ skipped' = r.skipped
        /\ op' = "index"
        /\ hung' = r.hung
        /\ listing' = <<>>
        /\ NoRag
        /\ UNCHANGED <<messages, last_chunks, chunkVars, extVars>>

\* python ingest.py list
ListCandidates ==
    /\ listing' = Counts(store)
    /\ op' = "list"
    /\ hung' = FALSE
    /\ total_added' = 0
    /\ skipped' = {}
    /\ NoRag
    /\ UNCHANGED <<store, messages, last_chunks, chunkVars, extVars>>

\* python ingest.py delete <name>
DeleteCandidate(name) ==
    /\ store' = DeleteWhereCandidate(store, name)
    /\ op' = "delete"
    /\ hung' = FALSE
    /\ total_added' = 0
    /\ skipped' = {}
    /\ listing' = <<>>
    /\ NoRag
    /\ UNCHANGED <<messages, last_chunks, chunkVars, extVars>>

\* ------------------------------------------------------------------------
\* chat.py: retrieve, build_context, ask_gemini, rag
\* ------------------------------------------------------------------------
TOP_K == 5
SCORE_THRESHOLD == 3000

\* the two fixed answers, without the warning sign they open with
FALLBACK == "No relevant CV content found. Try rephrasing or index more CVs."
NO_CVS == "No CVs indexed yet. Upload some using the sidebar."

\* round(x, 3) on a score in units of 1e-4: to the nearest multiple of 10,
\* a tie going to the even thousandth
Round3(x) ==
    LET q == x \div 10
        r == x % 10
    IN  IF r < 5 THEN 10 * q
        ELSE IF r > 5 THEN 10 * (q + 1)
        ELSE IF q % 2 = 0 THEN 10 * q ELSE 10 * (q + 1)

\* the list comprehension of retrieve: one dict per hit of the response
Hits(response) ==
    [i \in 1..Len(response) |->
        [text        |-> response[i].payload.text,
         candidate   |-> response[i].payload.candidate,
         filename    |-> response[i].payload.filename,
         chunk_index |-> response[i].payload.chunk_index,
         score       |-> Round3(response[i].score)]]

Reverse(s) == [i \in 1..Len(s) |-> s[Len(s) + 1 - i]]

\* retrieve that forgets score_threshold in the search
RetrieveNoThreshold(sim, qdrant, top_k) ==
    LET response == SearchAll(qdrant, sim, top_k)
    IN  [response |-> response, hits |-> Hits(response)]

\* retrieve that returns its hits worst first
RetrieveReversed(sim, qdrant, top_k) ==
    LET response == Search(qdrant, sim, top_k, SCORE_THRESHOLD)
    IN  [response |-> response, hits |-> Reverse(Hits(response))]

\* retrieve: `sim` stands for the vector embed_query returns, seen through
\* its similarity to the stored texts; the store's response is kept beside
\* the hits built from it
Retrieve(sim, qdrant, top_k) ==
    LET response == Search(qdrant, sim, top_k, SCORE_THRESHOLD)
    IN  [response |-> response, hits |-> Hits(response)]

\* by_candidate.setdefault(key, []).append(c) on an insertion-ordered dict,
\* kept as the sequence of its (key, items) entries
SetDefaultAppendNoMerge(by_candidate, key, c) ==
    Append(by_candidate, [key |-> key, items |-> <<c>>])

SetDefaultAppend(by_candidate, key, c) ==
    IF \E i \in 1..Len(by_candidate) : by_candidate[i].key = key
    THEN [i \in 1..Len(by_candidate) |->
            IF by_candidate[i].key = key
            THEN [key |-> key, items |-> Append(by_candidate[i].items, c)]
            ELSE by_candidate[i]]
    ELSE Append(by_candidate, [key |-> key, items |-> <<c>>])

\* the first loop of build_context
RECURSIVE GroupByCandidate(_)
GroupByCandidate(cs) ==
    IF cs = <<>> THEN <<>>
    ELSE LET c == cs[Len(cs)]
         IN  SetDefaultAppend(GroupByCandidate(SubSeq(cs, 1, Len(cs) - 1)), c.candidate, c)

\* the parts appended for one candidate: the header, then each text and ""
RECURSIVE ItemParts(_)
ItemParts(items) ==
    IF items = <<>> THEN <<>>
    ELSE <<[kind |-> "text", body |-> Head(items).text],
           [kind |-> "blank", body |-> <<>>]>> \o ItemParts(Tail(items))

RECURSIVE SectionParts(_)
SectionParts(by_candidate) ==
    IF by_candidate = <<>> THEN <<>>
    ELSE <<[kind |-> "header", body |-> Head(by_candidate).key]>>
         \o ItemParts(Head(by_candidate).items)
         \o SectionParts(Tail(by_candidate))

\* build_context: the parts that "\n".join puts on consecutive lines
BuildContext(cs) == SectionParts(GroupByCandidate(cs))

\* history[-n:] of ask_gemini, cut one turn short
HistoryWindowShort(history) == PySlice(history, -3, Len(history))

\* history[-4:]
HistoryWindow(history) == PySlice(history, -4, Len(history))

\* history_text: one "Role: content" paragraph per turn of the window
HistoryText(history) ==
    LET window == HistoryWindow(history)
    IN  [i \in 1..Len(window) |->
            [kind |-> "turn",
             role |-> IF window[i].role = "user" THEN "Recruiter" ELSE "Assistant",
             body |-> window[i].content]]

Part(kind, body) == [kind |-> kind, role |-> "", body |-> body]

\* ask_gemini: the prompt it composes, as the sequence of its paragraphs.
\* history = None and history = [] take the same branch of `if history`.
AskGemini(question, ctx, history) ==
    LET history_text == IF history # <<>> THEN HistoryText(history) ELSE <<>>
    IN  <<Part("system", "SYSTEM_PROMPT")>>
        \o (IF history_text # <<>>
            THEN <<Part("Previous conversation:", "")>> \o history_text
            ELSE <<>>)
        \o <<Part("CV Excerpts:", ctx),
             Part("---", ""),
             Part("Recruiter question:", question)>>

\* rag that generates before it searches
RagGenerateFirst(question, qdrant, sim, reply, history) ==
    LET r == Retrieve(sim, qdrant, TOP_K)
        ctx == BuildContext(r.hits)
    IN  [answer      |-> IF r.hits = <<>> THEN FALLBACK ELSE reply,
         chunks      |-> r.hits,
         calls       |-> <<"embed", "generate", "search">>,
         search_hits |-> r.response,
         context     |-> ctx,
         prompt      |-> AskGemini(question, ctx, history)]

\* rag that always goes on to the generator
RagNoShortCircuit(question, qdrant, sim, reply, history) ==
    LET r == Retrieve(sim, qdrant, TOP_K)
        ctx == BuildContext(r.hits)
    IN  [answer      |-> reply,
         chunks      |-> r.hits,
         calls       |-> <<"embed", "search", "generate">>,
         search_hits |-> r.response,
         context     |-> ctx,
         prompt      |-> AskGemini(question, ctx, history)]

\* rag: `reply` is the text generate_content answers with
Rag(question, qdrant, sim, reply, history) ==
    LET r == Retrieve(sim, qdrant, TOP_K)
        ctx == BuildContext(r.hits)
    IN  IF r.hits = <<>>
        THEN [answer      |-> FALLBACK,
              chunks      |-> <<>>,
              calls       |-> <<"embed", "search">>,
              search_hits |-> r.response,
              context     |-> <<>>,
              prompt      |-> <<>>]
        ELSE [answer      |-> reply,
              chunks      |-> r.hits,
              calls       |-> <<"embed", "search", "generate">>,
              search_hits |-> r.response,
              context     |-> ctx,
              prompt      |-> AskGemini(question, ctx, history)]

\* ------------------------------------------------------------------------
\* app.py: the chat column
\* ------------------------------------------------------------------------
Questions == {"who knows sql?"}
Suggestions == {"Who has the most ML experience?"}
Replies == {"ann knows sql"}

Turn(role, content) == [role |-> role, content |-> content]

\* a suggested question is clicked: shown only while the chat is empty
Suggest(sug) ==
    /\ messages = <<>>
    /\ messages' = Append(messages, Turn("user", sug))
    /\ op' = "suggest"
    /\ hung' = FALSE
    /\ total_added' = 0
    /\ skipped' = {}
    /\ listing' = Counts(store)
    /\ NoRag
    /\ UNCHANGED <<store, last_chunks, chunkVars, extVars>>

\* st.chat_input delivers a question
ChatInput(question, sim, reply) ==
    LET asked == Append(messages, Turn("user", question))
        candidates == Counts(store)
        history == SubSeq(asked, 1, Len(asked) - 1)
        result == Rag(question, store, sim, reply, history)
    IN  /\ Len(messages) + 2 <= MaxTurns
        /\ op' = "ask"
        /\ hung' = FALSE
        /\ total_added' = 0
        /\ skipped' = {}
        /\ listing' = candidates
        /\ IF DOMAIN candidates = {}
           THEN /\ messages' = Append(asked, Turn("assistant", NO_CVS))
                /\ last_chunks' = <<>>
                /\ NoRag
           ELSE /\ messages' = Append(asked, Turn("assistant", result.answer))
                /\ last_chunks' = result.chunks
                /\ calls' = result.calls
                /\ search_hits' = result.search_hits
                /\ context' = result.context
                /\ prompt' = result.prompt
        /\ UNCHANGED <<store, chunkVars, extVars>>

\* the Clear Chat button
ClearChat ==
    /\ messages' = <<>>
    /\ last_chunks' = <<>>
    /\ op' = "clear"
    /\ hung' = FALSE
    /\ total_added' = 0
    /\ skipped' = {}
    /\ listing' = Counts(store)
    /\ NoRag
    /\ UNCHANGED <<store, chunkVars, extVars>>

Init == ChunkIdle /\ SysIdle /\ ExtIdle

Next ==
    \/ \E listdir \in Listings : IngestCvs(listdir)
    \/ \E uploaded \in Uploads : IndexCvs(uploaded)
    \/ ListCandidates
    \/ \E name \in Names : DeleteCandidate(name)
    \/ \E sug \in Suggestions : Suggest(sug)
    \/ \E question \in Questions, reply \in Replies :
          \E sim \in Sims(store) : ChatInput(question, sim, reply)
    \/ ClearChat

Spec == Init /\ [][Next]_vars

\* ------------------------------------------------------------------------
\* the handlers that never call rag: the ingestion runs, the listing, the
\* deletions and the two chat buttons
\* ------------------------------------------------------------------------
IngestNext ==
    \/ \E listdir \in Listings : IngestCvs(listdir)
    \/ \E uploaded \in Uploads : IndexCvs(uploaded)
    \/ ListCandidates
    \/ \E name \in Names : DeleteCandidate(name)
    \/ \E sug \in Suggestions : Suggest(sug)
    \/ ClearChat

IngestSpec == Init /\ [][IngestNext]_vars

\* ------------------------------------------------------------------------
\* retrieve on its own: any collection ingestion builds from an empty
\* store, any similarities, any top_k up to the default
\* ------------------------------------------------------------------------
Collections == {IngestRun(<<>>, l).store : l \in Listings}

RetrieveInit ==
    /\ ChunkIdle
    /\ ExtIdle
    /\ store \in Collections
    /\ messages = <<>>
    /\ last_chunks = <<>>
    /\ op = "none"
    /\ hung = FALSE
    /\ total_added = 0
    /\ skipped = {}
    /\ listing = <<>>
    /\ calls = <<>>
    /\ search_hits = <<>>
    /\ context = <<>>
    /\ prompt = <<>>

RetrieveCall(sim, top_k) ==
    LET r == Retrieve(sim, store, top_k)
    IN  /\ search_hits' = r.response
        /\ last_chunks' = r.hits
        /\ calls' = <<"embed", "search">>
        /\ op' = "retrieve"
        /\ UNCHANGED <<store, messages, hung, total_added, skipped, listing,
                       context, prompt, chunkVars, extVars>>

RetrieveNext == \E sim \in FineSims(store), top_k \in 1..TOP_K : RetrieveCall(sim, top_k)

RetrieveSpec == RetrieveInit /\ [][RetrieveNext]_vars

\* ------------------------------------------------------------------------
\* build_context on its own: any short list of hits
\* ------------------------------------------------------------------------
MaxHits == 4

SampleHits ==
    {[text |-> t, candidate |-> c, filename |-> "cv.txt", chunk_index |-> 0, score |-> 3000] :
        t \in {<<"x">>, <<"y">>}, c \in {"ann", "bob", "cat"}}

ContextInit ==
    /\ ChunkIdle
    /\ ExtIdle
    /\ last_chunks \in UNION {[1..k -> SampleHits] : k \in 0..MaxHits}
    /\ store = <<>>
    /\ messages = <<>>
    /\ op = "none"
    /\ hung = FALSE
    /\ total_added = 0
    /\ skipped = {}
    /\ listing = <<>>
    /\ calls = <<>>
    /\ search_hits = <<>>
    /\ context = <<>>
    /\ prompt = <<>>

BuildContextCall ==
    /\ op = "none"
    /\ context' = BuildContext(last_chunks)
    /\ op' = "build_context"
    /\ UNCHANGED <<store, messages, last_chunks, hung, total_added, skipped, listing,
                   calls, search_hits, prompt, chunkVars, extVars>>

ContextNext == BuildContextCall

ContextSpec == ContextInit /\ [][ContextNext]_vars

\* ------------------------------------------------------------------------
\* ask_gemini on its own: any short history
\* ------------------------------------------------------------------------
MaxHistory == 6

SampleTurns ==
    {Turn("user", "c1"), Turn("user", "c2"), Turn("assistant", "c1"), Turn("system", "c2")}

PromptInit ==
    /\ ChunkIdle
    /\ ExtIdle
    /\ messages \in UNION {[1..k -> SampleTurns] : k \in 0..MaxHistory}
    /\ store = <<>>
    /\ last_chunks = <<>>
    /\ op = "none"
    /\ hung = FALSE
    /\ total_added = 0
    /\ skipped = {}
    /\ listing = <<>>
    /\ calls = <<>>
    /\ search_hits = <<>>
    /\ context = <<>>
    /\ prompt = <<>>

AskGeminiCall(question) ==
    /\ op = "none"
    /\ prompt' = AskGemini(question, context, messages)
    /\ calls' = <<"generate">>
    /\ op' = "ask_gemini"
    /\ UNCHANGED <<store, messages, last_chunks, hung, total_added, skipped, listing,
                   search_hits, context, chunkVars, extVars>>

PromptNext == \E question \in Questions : AskGeminiCall(question)

PromptSpec == PromptInit /\ [][PromptNext]_vars

\* ------------------------------------------------------------------------
\* requests that fail: the embedding call, the search or the generation
\* raises inside rag, in the app and in the terminal chat of chat.py
\* ------------------------------------------------------------------------
Stages == {"embed", "search", "generate"}

\* rag when the call of `stage` raises: the calls made up to the raise, and
\* what retrieve, build_context and ask_gemini had computed by then.  The
\* generator is only reached with at least one hit.
RagFails(question, qdrant, sim, stage, history) ==
    LET r == Retrieve(sim, qdrant, TOP_K)
        ctx == BuildContext(r.hits)
    IN  [possible    |-> stage = "generate" => r.hits # <<>>,
         calls       |-> IF stage = "embed" THEN <<"embed">>
                         ELSE IF stage = "search" THEN <<"embed", "search">>
                         ELSE <<"embed", "search", "generate">>,
         search_hits |-> IF stage = "generate" THEN r.response ELSE <<>>,
         context     |-> IF stage = "generate" THEN ctx ELSE <<>>,
         prompt      |-> IF stage = "generate" THEN AskGemini(question, ctx, history)
                         ELSE <<>>]

\* st.chat_input delivers a question and rag raises: the script run ends at
\* the raise, after the question was appended
ChatInputFails(question, sim, stage) ==
    LET asked == Append(messages, Turn("user", question))
        candidates == Counts(store)
        history == SubSeq(asked, 1, Len(asked) - 1)
        failure == RagFails(question, store, sim, stage, history)
    IN  /\ Len(messages) + 1 <= MaxTurns
        /\ DOMAIN candidates # {}
        /\ failure.possible
        /\ messages' = asked
        /\ op' = "ask_failed"
        /\ hung' = FALSE
        /\ total_added' = 0
        /\ skipped' = {}
        /\ listing' = candidates
        /\ calls' = failure.calls
        /\ search_hits' = failure.search_hits
        /\ context' = failure.context
        /\ prompt' = failure.prompt
        /\ UNCHANGED <<store, last_chunks, chunkVars, extVars>>

\* what every step of the terminal chat leaves of the outputs of the
\* other handlers
CliOutputs ==
    /\ hung' = FALSE
    /\ total_added' = 0
    /\ skipped' = {}
    /\ listing' = <<>>

\* python chat.py: interactive_chat up to its first prompt
CliStart ==
    /\ cli_pc \in {"off", "exited", "crashed"}
    /\ cli_pc' = IF Len(store) = 0 THEN "exited" ELSE "prompt"
    /\ cli_history' = <<>>
    /\ op' = "cli_start"
    /\ CliOutputs
    /\ NoRag
    /\ UNCHANGED <<store, messages, last_chunks, chunkVars, embVars, runs>>

\* a question typed at the prompt, answered by rag
CliAsk(question, sim, reply) ==
    LET result == Rag(question, store, sim, reply, cli_history)
    IN  /\ cli_pc = "prompt"
        /\ Len(cli_history) + 2 <= MaxTurns
        /\ cli_history' = cli_history \o <<Turn("user", question),
                                           Turn("assistant", result.answer)>>
        /\ op' = "cli_ask"
        /\ CliOutputs
        /\ calls' = result.calls
        /\ search_hits' = result.search_hits
        /\ context' = result.context
        /\ prompt' = result.prompt
        /\ UNCHANGED <<store, messages, last_chunks, chunkVars, cli_pc, embVars, runs>>

\* a question typed at the prompt and rag raises: nothing in the while loop
\* catches it, the process ends with the traceback and its locals are gone
CliAskFails(question, sim, stage) ==
    LET failure == RagFails(question, store, sim, stage, cli_history)
    IN  /\ cli_pc = "prompt"
        /\ failure.possible
        /\ cli_pc' = "crashed"
        /\ cli_history' = <<>>
        /\ op' = "cli_ask_failed"
        /\ CliOutputs
        /\ calls' = failure.calls
        /\ search_hits' = failure.search_hits
        /\ context' = failure.context
        /\ prompt' = failure.prompt
        /\ UNCHANGED <<store, messages, last_chunks, chunkVars, embVars, runs>>

\* quit, exit, q, Ctrl-C or end of input at the prompt
CliQuit ==
    /\ cli_pc = "prompt"
    /\ cli_pc' = "exited"
    /\ cli_history' = <<>>
    /\ op' = "cli_quit"
    /\ CliOutputs
    /\ NoRag
    /\ UNCHANGED <<store, messages, last_chunks, chunkVars, embVars, runs>>

\* query vectors equally near to every stored text: all hits or none
FlatSims(qdrant) == {[t \in ChunkTexts(qdrant) |-> s] : s \in Scores}

ErrorNext ==
    \/ \E listdir \in Listings : IngestCvs(listdir)
    \/ \E question \in Questions, sim \in FlatSims(store), reply \in Replies :
          ChatInput(question, sim, reply)
    \/ \E question \in Questions, sim \in FlatSims(store), stage \in Stages :
          ChatInputFails(question, sim, stage)
    \/ CliStart
    \/ \E question \in Questions, sim \in FlatSims(store), reply \in Replies :
          CliAsk(question, sim, reply)
    \/ \E question \in Questions, sim \in FlatSims(store), stage \in Stages :
          CliAskFails(question, sim, stage)
    \/ CliQuit

ErrorSpec == Init /\ [][ErrorNext]_vars

\* ------------------------------------------------------------------------
\* clients.py: get_embedder under the request threads of one process (the
\* app runs each session's script in a thread of its own)
\* ------------------------------------------------------------------------
MaxCalls == 2      \* embed_texts calls made by one thread

\* embed_texts is called: get_embedder is entered
EmbedCall(t) ==
    /\ threads[t].pc = "idle"
    /\ threads[t].calls < MaxCalls
    /\ threads' = [threads EXCEPT ![t].pc = "check", ![t].calls = @ + 1]
    /\ UNCHANGED <<embedder, constructed, chunkVars, sysVars, cliVars, runs>>

\* if _embedder is None
CheckNone(t) ==
    /\ threads[t].pc = "check"
    /\ threads' = [threads EXCEPT ![t].pc = IF embedder = None THEN "construct" ELSE "return"]
    /\ UNCHANGED <<embedder, constructed, chunkVars, sysVars, cliVars, runs>>

\* _embedder = SentenceTransformer(EMBEDDING_MODEL): each construction is a
\* new object, numbered in the order of construction
Construct(t) ==
    /\ threads[t].pc = "construct"
    /\ constructed' = constructed + 1
    /\ embedder' = constructed + 1
    /\ threads' = [threads EXCEPT ![t].pc = "return"]
    /\ UNCHANGED <<chunkVars, sysVars, cliVars, runs>>

\* return _embedder: the global as it is now
ReturnEmbedder(t) ==
    /\ threads[t].pc = "return"
    /\ threads' = [threads EXCEPT ![t].pc = "encode", ![t].handle = embedder]
    /\ UNCHANGED <<embedder, constructed, chunkVars, sysVars, cliVars, runs>>

\* embedder.encode(texts) on the handle get_embedder returned
Encode(t) ==
    /\ threads[t].pc = "encode"
    /\ threads' = [threads EXCEPT ![t].pc = "idle"]
    /\ UNCHANGED <<embedder, constructed, chunkVars, sysVars, cliVars, runs>>

EmbedNext ==
    \E t \in Threads :
        \/ EmbedCall(t)
        \/ CheckNone(t)
        \/ Construct(t)
        \/ ReturnEmbedder(t)
        \/ Encode(t)

EmbedSpec == Init /\ [][EmbedNext]_vars

\* ------------------------------------------------------------------------
\* ingestion runs under way at the same time: python ingest.py and the
\* Index CVs handler of an app session, each reading the listing once and
\* then upserting file by file, with deletions in between
\* ------------------------------------------------------------------------

\* the files a runner can be started on
RunInputs(r) ==
    IF r = "cli"
    THEN {SelectSeq(l, LAMBDA f : Ext(f) \in SupportedExt) : l \in Listings}
    ELSE Uploads

\* the run starts: the listing is read, before the loop
RunStart(r, files) ==
    /\ runs[r].pc = "idle"
    /\ runs' = [runs EXCEPT ![r] = [pc      |-> "loop",
                                    indexed |-> GetIndexedFilenames(store),
                                    files   |-> files]]
    /\ UNCHANGED <<chunkVars, sysVars, cliVars, embVars>>

\* one pass of the loop, on the next file
RunFile(r) ==
    /\ runs[r].pc = "loop"
    /\ runs[r].files # <<>>
    /\ LET res == IngestFile(store, runs[r].indexed, Head(runs[r].files))
       IN  /\ store' = res.store
           /\ runs' = [runs EXCEPT ![r].pc = IF res.hung THEN "hung" ELSE "loop",
                                   ![r].files = IF res.hung THEN @ ELSE Tail(@)]
    /\ UNCHANGED <<messages, last_chunks, op, hung, total_added, skipped, listing,
                   calls, search_hits, context, prompt, chunkVars, cliVars, embVars>>

\* the loop is over (or the hanging process was killed): the run ends
RunEnd(r) ==
    /\ \/ runs[r].pc = "loop" /\ runs[r].files = <<>>
       \/ runs[r].pc = "hung"
    /\ runs' = [runs EXCEPT ![r] = IdleRun]
    /\ UNCHANGED <<chunkVars, sysVars, cliVars, embVars>>

RaceNext ==
    \/ \E r \in Runners : \E files \in RunInputs(r) : RunStart(r, files)
    \/ \E r \in Runners : RunFile(r)
    \/ \E r \in Runners : RunEnd(r)
    \/ \E name \in Names : DeleteCandidate(name)

RaceSpec == Init /\ [][RaceNext]_vars

\* C1: chunk_text terminates for every input text: the loop eventually
\* reaches start >= len(text) and returns its chunk list.
C1_Terminates == (pc = "loop") ~> (pc = "done")

\* The step machine and ChunkText agree: a call that returns returns
\* ChunkText's chunks, and only a call that never returns exhausts the list.
ChunkLoopAgrees ==
    /\ pc = "done" => ChunkText(text) = [diverges |-> FALSE, chunks |-> chunks]
    /\ pc = "MemoryError" => ChunkText(text).diverges

IsBlank(t) == \A i \in 1..Len(t) : t[i] \in Whitespace

\* C2: chunk_text leaves no gaps: every position of the text holding a
\* non-whitespace character lies inside the [start, end) window of at least
\* one returned chunk.
C2_NoGaps ==
    pc = "done" =>
        \A i \in 1..Len(text) :
            text[i] \notin Whitespace =>
                \E k \in 1..Len(spans) : spans[k][1] < i /\ i <= spans[k][2]

\* C10: every chunk returned by chunk_text is non-empty and has no leading
\* or trailing whitespace; an empty or whitespace-only text gives no chunk.
C10_ChunksStripped ==
    pc = "done" =>
        /\ \A k \in 1..Len(chunks) :
              /\ chunks[k] # <<>>
              /\ chunks[k][1] \notin Whitespace
              /\ chunks[k][Len(chunks[k])] \notin Whitespace
        /\ IsBlank(text) => chunks = <<>>

\* a returned list of two or more chunks, one of them cut from a window with
\* whitespace at its front that strip() removed
C10_Witness ==
    /\ pc = "done"
    /\ Len(chunks) >= 2
    /\ \E k \in 1..Len(chunks) :
          /\ spans[k][2] - spans[k][1] > Len(chunks[k])
          /\ text[spans[k][1] + 1] \in Whitespace

LastAnswer == messages[Len(messages)].content

HasRecords(qdrant, name) == \E i \in 1..Len(qdrant) : qdrant[i].candidate = name

\* C3: when retrieve returns zero hits, rag answers with the fixed fallback
\* message and an empty chunk list and never calls the language model; the
\* language model is called only after at least one hit was retrieved.
C3_ShortCircuit ==
    /\ (op = "ask" /\ calls # <<>> /\ search_hits = <<>>) =>
          /\ LastAnswer = FALLBACK
          /\ last_chunks = <<>>
          /\ calls = <<"embed", "search">>
          /\ prompt = <<>>
    /\ (\E i \in 1..Len(calls) : calls[i] = "generate") =>
          /\ Len(search_hits) >= 1
          /\ Len(last_chunks) >= 1

\* a question asked of a store that holds chunks, none of them a hit
C3_Witness ==
    /\ op = "ask"
    /\ store # <<>>
    /\ calls = <<"embed", "search">>
    /\ LastAnswer = FALLBACK

\* what holds once delete_candidate(name) has taken the store from `before`
\* to `after`
DeletedFrom(before, after, name) ==
    /\ ~HasRecords(after, name)
    /\ name \notin DOMAIN Counts(after)
    /\ \A sim \in Sims(after) :
          LET hits == Retrieve(sim, after, TOP_K).hits
          IN  \A i \in 1..Len(hits) : hits[i].candidate # name
    /\ SelectSeq(after, LAMBDA p : p.candidate # name)
         = SelectSeq(before, LAMBDA p : p.candidate # name)
    /\ after = SelectSeq(before, LAMBDA p : p.candidate # name)

\* C4: after delete_candidate(X), a listing shows no chunk of X and retrieve
\* returns no hit of X, whatever ran before; the records of every other
\* candidate are as they were.  And as long as the store holds no record of
\* a candidate, no listing and no question shows one.
C4_Deletion ==
    [][/\ op' = "delete" =>
             \A name \in Names : DeleteCandidate(name) => DeletedFrom(store, store', name)
       /\ op' = "list" =>
             \A name \in DOMAIN listing' : HasRecords(store, name)
       /\ op' = "ask" =>
             \A i \in 1..Len(last_chunks') : HasRecords(store, last_chunks'[i].candidate)
      ]_vars

\* a delete that removed a candidate the session still shows chunks of, and
\* left another candidate's records in the store
C4_Witness ==
    /\ op = "delete"
    /\ store # <<>>
    /\ \E i \in 1..Len(last_chunks) : ~HasRecords(store, last_chunks[i].candidate)

RecordsOf(qdrant, filename) == SelectSeq(qdrant, LAMBDA p : p.filename = filename)

\* what holds of an ingestion run over `files` that took the store from
\* `before` to `after`
Reingested(before, after, files, added, isHung) ==
    /\ \A f \in GetIndexedFilenames(before) : RecordsOf(after, f) = RecordsOf(before, f)
    /\ (\A i \in 1..Len(files) : files[i] \in GetIndexedFilenames(before)) =>
          after = before /\ added = 0
    /\ Len(after) = Len(before) + added
    /\ LET again == IngestLoop(after, GetIndexedFilenames(after), files, 0, {})
       IN  again.store = after /\ again.added = 0 /\ again.hung = isHung

\* C5: an ingestion run over a filename already in the store's listing adds
\* no chunk for it and leaves its records as they are; a run whose files are
\* all listed leaves the store unchanged, and running the same ingestion
\* again right after a run adds nothing.
C5_Reingestion ==
    [][/\ op' = "ingest" =>
             \A l \in Listings :
                 IngestCvs(l) =>
                     Reingested(store, store',
                                SelectSeq(l, LAMBDA f : Ext(f) \in SupportedExt),
                                total_added', hung')
       /\ op' = "index" =>
             \A u \in Uploads :
                 IndexCvs(u) => Reingested(store, store', u, total_added', hung')
      ]_vars

\* a run that returned after skipping every storable file it was given
C5_Witness ==
    /\ op \in {"ingest", "index"}
    /\ ~hung
    /\ Cardinality(skipped) >= 2
    /\ total_added = 0
    /\ Len(store) >= 3

\* C6: no hit returned by retrieve reports a score below the threshold given
\* to the store search.
C6_Threshold ==
    \A i \in 1..Len(last_chunks) : last_chunks[i].score >= SCORE_THRESHOLD

\* a retrieve whose search left out a stored chunk below the threshold and
\* whose reported scores include one rounded down onto the threshold
C6_Witness ==
    /\ op = "retrieve"
    /\ Len(search_hits) < Len(store)
    /\ \E i \in 1..Len(last_chunks) :
          last_chunks[i].score = SCORE_THRESHOLD /\ search_hits[i].score > SCORE_THRESHOLD

\* C7: the hits of retrieve are in descending order of reported score, one
\* per record of the search response and in the response's order.
C7_Ordering ==
    /\ \A i, j \in 1..Len(last_chunks) :
          i < j => last_chunks[i].score >= last_chunks[j].score
    /\ Len(last_chunks) = Len(search_hits)
    /\ \A i \in 1..Len(last_chunks) :
          /\ last_chunks[i].text = search_hits[i].payload.text
          /\ last_chunks[i].candidate = search_hits[i].payload.candidate
          /\ last_chunks[i].filename = search_hits[i].payload.filename
          /\ last_chunks[i].chunk_index = search_hits[i].payload.chunk_index

\* a response of three records with strictly falling scores, two of which
\* report the same rounded score
C7_Witness ==
    /\ op = "retrieve"
    /\ Len(last_chunks) = 3
    /\ search_hits[1].score > search_hits[2].score
    /\ search_hits[2].score > search_hits[3].score
    /\ \E i \in 1..2 : last_chunks[i].score = last_chunks[i + 1].score

\* the candidate names of the headers of a context, in order
HeaderNames(ctx) ==
    LET hs == SelectSeq(ctx, LAMBDA p : p.kind = "header")
    IN  [i \in 1..Len(hs) |-> hs[i].body]

\* the texts of the section that the k-th header of a context opens
SectionTexts(ctx, k) ==
    LET at == {i \in 1..Len(ctx) : ctx[i].kind = "header"}
        from == CHOOSE i \in at : Cardinality({j \in at : j <= i}) = k
        later == {i \in at : i > from}
        to == IF later = {} THEN Len(ctx) + 1
              ELSE CHOOSE i \in later : \A j \in later : i <= j
        ts == SelectSeq(SubSeq(ctx, from + 1, to - 1), LAMBDA p : p.kind = "text")
    IN  [i \in 1..Len(ts) |-> ts[i].body]

TextsOf(cs, name) ==
    LET mine == SelectSeq(cs, LAMBDA c : c.candidate = name)
    IN  [i \in 1..Len(mine) |-> mine[i].text]

FirstAt(cs, name) == CHOOSE i \in 1..Len(cs) : cs[i].candidate = name /\ \A j \in 1..(i - 1) : cs[j].candidate # name

\* C8: build_context emits one header per distinct candidate of its input,
\* in the order the candidates first appear, and each section holds all and
\* only that candidate's texts in the order supplied.
C8_Grouping ==
    op = "build_context" =>
        LET names == HeaderNames(context)
        IN  /\ {names[i] : i \in 1..Len(names)}
                 = {last_chunks[i].candidate : i \in 1..Len(last_chunks)}
            /\ \A i, j \in 1..Len(names) : i # j => names[i] # names[j]
            /\ \A i, j \in 1..Len(names) :
                  i < j => FirstAt(last_chunks, names[i]) < FirstAt(last_chunks, names[j])
            /\ \A k \in 1..Len(names) :
                  SectionTexts(context, k) = TextsOf(last_chunks, names[k])

\* hits of one candidate with another candidate's hit between them
C8_Witness ==
    /\ op = "build_context"
    /\ \E i, j, k \in 1..Len(last_chunks) :
          /\ i < j /\ j < k
          /\ last_chunks[i].candidate = last_chunks[k].candidate
          /\ last_chunks[i].candidate # last_chunks[j].candidate
          /\ last_chunks[i].text # last_chunks[k].text

\* C9: the prompt of ask_gemini holds exactly the last min(4, n) turns of a
\* history of n turns, in order, each under its role tag, right after the
\* history heading; with no history there is no heading and no turn.
C9_HistoryWindow ==
    op = "ask_gemini" =>
        LET n == Len(messages)
            k == Min(4, n)
            turns == SelectSeq(prompt, LAMBDA p : p.kind = "turn")
            headings == {i \in 1..Len(prompt) : prompt[i].kind = "Previous conversation:"}
        IN  /\ Len(turns) = k
            /\ \A i \in 1..k :
                  /\ turns[i].body = messages[n - k + i].content
                  /\ turns[i].role =
                        IF messages[n - k + i].role = "user" THEN "Recruiter" ELSE "Assistant"
            /\ n = 0 => headings = {}
            /\ n > 0 =>
                  /\ headings = {2}
                  /\ \A i \in 1..k : prompt[2 + i].kind = "turn"

\* a history of more than four turns whose first turn differs from each of
\* the last four
C9_Witness ==
    /\ op = "ask_gemini"
    /\ Len(messages) > 4
    /\ \A i \in (Len(messages) - 3)..Len(messages) : messages[i] # messages[1]

IsPrefix(s, t) == Len(s) <= Len(t) /\ SubSeq(t, 1, Len(s)) = s

\* what C11 asks of a failed request of the app: the store and the turns
\* recorded before it are as they were (the session itself lives on)
AppErrorIsolation ==
    [][op' = "ask_failed" => store' = store /\ IsPrefix(messages, messages')]_vars

\* C11: a request that fails inside rag degrades that request only: the
\* store is unchanged, the turns recorded before the request are still held
\* by the session, and the session is still there to take a further
\* question, in the app and in the terminal chat alike.
C11_ErrorIsolation ==
    [][/\ op' = "ask_failed" => store' = store /\ IsPrefix(messages, messages')
       /\ op' = "cli_ask_failed" =>
             /\ store' = store
             /\ IsPrefix(cli_history, cli_history')
             /\ cli_pc' = "prompt"
      ]_vars

\* an ingestion run over `files` that took the store from `before` to
\* `after`, one of the files yielding no text: that file has no record, and
\* each file of `others` not listed before the run has its chunks stored
Recovered(before, after, files, others) ==
    (\E i \in 1..Len(files) : ExtractText(files[i]) = <<>>) =>
        \A i \in 1..Len(files) :
            LET f == files[i]
            IN  /\ ExtractText(f) = <<>> => RecordsOf(after, f) = <<>>
                /\ (f \in others /\ ExtractText(f) # <<>> /\ f \notin GetIndexedFilenames(before))
                      => /\ RecordsOf(after, f) # <<>>
                         /\ RecordsOf(after, f) = Points(f, FileChunks[f].chunks)

FilesOf(listdir) == SelectSeq(listdir, LAMBDA f : Ext(f) \in SupportedExt)

\* the files of a run whose chunking returns
Returning(files) == {files[i] : i \in {j \in 1..Len(files) : ~FileChunks[files[j]].diverges}}

\* C12 for the runs that return: every file whose chunking returns is stored
ExtractionRecoveryUnlessHung ==
    [][/\ op' = "ingest" =>
             \A l \in Listings :
                 (IngestCvs(l) /\ ~hung') =>
                     Recovered(store, store', FilesOf(l), Returning(FilesOf(l)))
       /\ op' = "index" =>
             \A u \in Uploads :
                 (IndexCvs(u) /\ ~hung') => Recovered(store, store', u, Returning(u))
      ]_vars

\* C12: in an ingestion run, a file whose extraction yields the empty string
\* is skipped with no record stored, and every other file of the run not yet
\* indexed is chunked, embedded and upserted, wherever the empty file stands.
C12_ExtractionRecovery ==
    [][/\ op' = "ingest" =>
             \A l \in Listings :
                 IngestCvs(l) =>
                     Recovered(store, store', FilesOf(l), {f \in Files : TRUE})
       /\ op' = "index" =>
             \A u \in Uploads :
                 IndexCvs(u) => Recovered(store, store', u, {f \in Files : TRUE})
      ]_vars

\* C13: the embedding model handle is None until the first embed call, the
\* model is constructed at most once in the process, and every embed call,
\* concurrent first calls included, encodes with that one handle.
C13_InitOnce ==
    /\ (\A t \in Threads : threads[t].calls = 0) => embedder = None /\ constructed = 0
    /\ constructed <= 1
    /\ \A t \in Threads : threads[t].handle \in {None, 1}
    /\ \A t \in Threads : threads[t].pc = "encode" => threads[t].handle = 1

CallRank(c) == IF c = "embed" THEN 1 ELSE IF c = "search" THEN 2 ELSE 3

Times(c) == Cardinality({i \in 1..Len(calls) : calls[i] = c})

\* a question that the chat input handler gave to rag
Handled == op = "ask" /\ calls # <<>>

\* C14 as stated: every question handled by rag makes one embedding call,
\* one search and one generation call, in that order.
C14_ThreeCalls ==
    Handled => calls = <<"embed", "search", "generate">>

\* C14, amended: every question handled by rag makes one embedding call,
\* then one search, then one generation call if the search returned a hit
\* and none if it returned nothing; no call is made twice and none out of
\* that order.
C14_CallSequence ==
    Handled =>
        /\ \A i, j \in 1..Len(calls) : i < j => CallRank(calls[i]) < CallRank(calls[j])
        /\ Times("embed") = 1
        /\ Times("search") = 1
        /\ Times("generate") = IF search_hits = <<>> THEN 0 ELSE 1
        /\ Len(calls) = Times("embed") + Times("search") + Times("generate")

\* a session whose first question found nothing and whose second was
\* answered by the generator
C14_Witness ==
    /\ Handled
    /\ Len(messages) = 4
    /\ messages[2].content = FALLBACK
    /\ messages[4].content \in Replies
    /\ calls = <<"embed", "search", "generate">>

\* the records of one file are one whole document
WholeDocument(qdrant, f) ==
    LET recs == RecordsOf(qdrant, f)
        n == recs[1].total_chunks
    IN  /\ \A i \in 1..Len(recs) :
              /\ recs[i].total_chunks = n
              /\ recs[i].candidate = Stem(f)
              /\ recs[i].chunk_index \in 0..(n - 1)
        /\ \A k \in 0..(n - 1) :
              Cardinality({i \in 1..Len(recs) : recs[i].chunk_index = k}) = 1

\* C15: in every reachable store, each filename present has exactly one
\* record per chunk_index in 0..total_chunks-1, all with the same
\* total_chunks and with candidate equal to the filename's stem: no file is
\* stored partially and no chunk twice.
C15_StoredDocument ==
    \A f \in GetIndexedFilenames(store) : WholeDocument(store, f)

====
